---- MODULE Spec2Model ----
(***************************************************************************)
(* Control-flow simplification passes of passes/mid/clearPass.py:          *)
(* pass_clear_const_if, pass_clear_goto, pass_clear_if, pass_merge_block   *)
(* and their composition pass_clear, over a medium-level IL function.      *)
(*                                                                         *)
(* The IL function is a sequence of instructions addressed by 0-based      *)
(* instruction index (instrs[i + 1] is instruction i).  Basic blocks are   *)
(* half-open index ranges [start, end) recomputed by finalize.             *)
(***************************************************************************)
EXTENDS Integers, Sequences, FiniteSets, TLC

\* Largest number of basic blocks of an input function.
MaxBlocks == 3

VARIABLES
    instrs,   \* the function's instructions (mlil[i] = instrs[i + 1])
    blocks,   \* mlil.basic_blocks as of the last finalize
    pc,       \* the pass whose loop is running, or "done" / "raised"
    round,    \* scan rounds the running pass has completed
    cap,      \* the running pass's iteration cap (range(...) bound)
    err,      \* the exception that escaped, or "none"
    pass0,    \* instructions when the running (or last finished) pass began
    prev,     \* instructions before the last scan round
    merges,   \* successful merge_block calls of the last scan round
    meta,     \* the metadata calls the last scan round ended with, in order
    stray,    \* the one wrong answer of the predecessor analyzer, if any
    finished, \* the passes that have returned, in order, with their rounds
    entry,    \* the function the caller invoked
    run,      \* how many times the caller has invoked it
    run0      \* instructions when the current invocation began

vars == <<instrs, blocks, pc, round, cap, err, pass0, prev, merges, meta,
          stray, finished, entry, run, run0>>

----------------------------------------------------------------------------
\* Instructions

CondVar == [kind |-> "var", constant |-> 0]

CondConst(c) == [kind |-> "const", constant |-> c]

NoCond == [kind |-> "none", constant |-> 0]

Goto(d) == [op |-> "goto", dest |-> d, true |-> 0, false |-> 0,
            condition |-> NoCond, val |-> 0, targets |-> {}]

If(c, t, f) == [op |-> "if", dest |-> 0, true |-> t, false |-> f,
                condition |-> c, val |-> 0, targets |-> {}]

Ret == [op |-> "ret", dest |-> 0, true |-> 0, false |-> 0,
        condition |-> NoCond, val |-> 0, targets |-> {}]

\* An indirect jump through a table of targets (MLIL_JUMP_TO): a terminator
\* that is neither MediumLevelILGoto nor MediumLevelILIf.
JumpTo(ts) == [op |-> "jump_to", dest |-> 0, true |-> 0, false |-> 0,
               condition |-> NoCond, val |-> 0, targets |-> ts]

\* A non-terminator instruction; val tells the instructions apart.
Other(v) == [op |-> "other", dest |-> 0, true |-> 0, false |-> 0,
             condition |-> NoCond, val |-> v, targets |-> {}]

IsGoto(i) == i.op = "goto"

IsIf(i) == i.op = "if"

IsRet(i) == i.op = "ret"

IsConst(c) == c.kind = "const"

IsTerminator(i) == i.op \in {"goto", "if", "ret", "jump_to"}

\* mlil[idx]
At(ins, idx) == ins[idx + 1]

\* mlil.replace_expr(instr.expr_index, new)
ReplaceExpr(ins, idx, new) == [ins EXCEPT ![idx + 1] = new]

\* The instruction indices a terminator can transfer control to.
Targets(i) ==
    IF IsGoto(i) THEN {i.dest}
    ELSE IF IsIf(i) THEN {i.true, i.false}
    ELSE i.targets

----------------------------------------------------------------------------
\* Basic blocks

\* Block leaders: index 0, every branch target, every instruction that
\* follows a terminator.
Leaders(ins) ==
    {0} \cup {k \in 1..(Len(ins) - 1) : IsTerminator(ins[k])}
        \cup {t \in UNION {Targets(ins[k]) : k \in 1..Len(ins)} : t < Len(ins)}

\* mlil.finalize(); mlil.generate_ssa_form(): block boundaries are derived
\* again from the instructions; instruction indices are kept and nothing is
\* removed.  Blocks are listed by ascending start.
Finalize(ins) ==
    LET L == Leaders(ins)
        starts == SelectSeq([i \in 1..Len(ins) |-> i - 1], LAMBDA i : i \in L)
    IN [k \in 1..Len(starts) |->
            [start |-> starts[k],
             end |-> IF k < Len(starts) THEN starts[k + 1] ELSE Len(ins)]]

\* bb[-1]: the index of the block's last instruction.
LastIdx(bb) == bb.end - 1

\* mlil.get_basic_block_at(idx): the block that holds instruction idx.
BlockAt(blks, idx) ==
    CHOOSE k \in 1..Len(blks) : blks[k].start <= idx /\ idx < blks[k].end

----------------------------------------------------------------------------
\* Input functions

\* Lengths of a block's body (the instructions before its terminator).
BodyLens == {0, 1}

\* Conditions of a conditional branch: a variable, or a literal constant.
Conds == {CondVar, CondConst(0), CondConst(1), CondConst(2)}

\* A block of an input function: its body length and its terminator, whose
\* targets t, f name blocks 1..n.
JumpShapes(n) ==
    {[body |-> b, op |-> "ret", t |-> 1, f |-> 1, c |-> NoCond] : b \in BodyLens}
    \cup {[body |-> b, op |-> "goto", t |-> d, f |-> d, c |-> NoCond] :
            b \in BodyLens, d \in 1..n}

IfShapes(n, conds) ==
    {[body |-> b, op |-> "if", t |-> t, f |-> f, c |-> c] :
        b \in BodyLens, t \in 1..n, f \in 1..n, c \in conds}

\* The blocks control can reach from the entry block 1.
RECURSIVE ReachFrom(_, _)
ReachFrom(cfg, S) ==
    LET succ(b) == IF cfg[b].op = "ret" THEN {}
                   ELSE IF cfg[b].op = "goto" THEN {cfg[b].t}
                   ELSE {cfg[b].t, cfg[b].f}
        T == S \cup UNION {succ(b) : b \in S}
    IN IF T = S THEN S ELSE ReachFrom(cfg, T)

\* The index of block b's first instruction in the function's layout.
RECURSIVE StartOf(_, _)
StartOf(cfg, b) ==
    IF b = 1 THEN 0 ELSE StartOf(cfg, b - 1) + cfg[b - 1].body + 1

\* The instructions of block b: its body, then its terminator.
BlockInstrs(cfg, b) ==
    LET s == cfg[b]
        term == IF s.op = "ret" THEN Ret
                ELSE IF s.op = "goto" THEN Goto(StartOf(cfg, s.t))
                ELSE IF s.op = "jump_to"
                THEN JumpTo({StartOf(cfg, s.t), StartOf(cfg, s.f)})
                ELSE If(s.c, StartOf(cfg, s.t), StartOf(cfg, s.f))
    IN [j \in 1..s.body |-> Other(b)] \o <<term>>

RECURSIVE Layout(_, _)
Layout(cfg, b) ==
    IF b > Len(cfg) THEN <<>> ELSE BlockInstrs(cfg, b) \o Layout(cfg, b + 1)

\* The block shapes of n blocks of which block k (none when k = 0) ends in
\* a conditional branch and the others in a jump or a return.
Cfgs(n, k, conds) ==
    {[b \in 1..n |-> IF b = k THEN is ELSE js[b]] :
        js \in [(1..n) \ {k} -> JumpShapes(n)],
        is \in IF k = 0 THEN {Ret} ELSE IfShapes(n, conds)}

\* Whether cfg, of n blocks, is an input function: every block is
\* reachable from the entry.
IsInput(cfg, n) == ReachFrom(cfg, {1}) = 1..n

----------------------------------------------------------------------------
\* Pass bookkeeping shared by the four fixed-point loops

\* The result of one scan over mlil.basic_blocks.
ScanResult(ins, upd, e, m) ==
    [ins |-> ins, updated |-> upd, err |-> e, merges |-> m]

\* NextPass with jump-chain compression and branch redirection exchanged.
NextPass_swapped(p) ==
    IF entry # "pass_clear" THEN "done"
    ELSE IF p = "pass_clear_const_if" THEN "pass_clear_if"
    ELSE IF p = "pass_clear_if" THEN "pass_clear_goto"
    ELSE IF p = "pass_clear_goto" THEN "pass_merge_block"
    ELSE "done"

\* pass_clear runs the four passes in this order.
NextPass(p) ==
    IF entry # "pass_clear" THEN "done"
    ELSE IF p = "pass_clear_const_if" THEN "pass_clear_goto"
    ELSE IF p = "pass_clear_goto" THEN "pass_clear_if"
    ELSE IF p = "pass_clear_if" THEN "pass_merge_block"
    ELSE "done"

FirstPass(e) == IF e = "pass_clear" THEN "pass_clear_const_if" ELSE e

\* range(len(mlil.basic_blocks)), doubled for pass_merge_block.
CapOf(p, blks) ==
    IF p = "pass_merge_block" THEN Len(blks) * 2 ELSE Len(blks)

\* MetaCalls that re-derives the metadata only when the loop is left.
MetaCalls_lazy(updated, leaving) ==
    IF leaving THEN <<"finalize", "generate_ssa_form">> ELSE <<>>

\* Lines 50-56: the metadata calls that follow a scan: finalize and
\* generate_ssa_form inside the loop when the scan updated the function,
\* and once more behind the loop when the loop is left.
MetaCalls(updated, leaving) ==
    (IF updated THEN <<"finalize", "generate_ssa_form">> ELSE <<>>)
    \o (IF leaving THEN <<"finalize", "generate_ssa_form">> ELSE <<>>)

\* mlil.basic_blocks after the calls: derived again by a finalize, else as
\* they were.
Rederive(calls, blks, ins) ==
    IF \E j \in 1..Len(calls) : calls[j] = "finalize" THEN Finalize(ins)
    ELSE blks

\* One iteration of a pass's `for _ in range(...)` loop whose scan gave r:
\* an escaping exception ends everything; an updating round finalizes and
\* loops while the cap allows; otherwise the loop is left, the function is
\* finalized once more and the pass returns.
Round(p, r) ==
    /\ pc = p
    /\ round < cap
    /\ prev' = instrs
    /\ instrs' = r.ins
    /\ merges' = r.merges
    /\ UNCHANGED <<stray, entry, run, run0>>
    /\ IF r.err # "none"
       THEN /\ pc' = "raised"
            /\ err' = r.err
            /\ round' = round + 1
            /\ meta' = <<>>
            /\ UNCHANGED <<blocks, cap, pass0, finished>>
       ELSE IF r.updated /\ round + 1 < cap
       THEN /\ meta' = MetaCalls(r.updated, FALSE)
            /\ blocks' = Rederive(MetaCalls(r.updated, FALSE), blocks, r.ins)
            /\ round' = round + 1
            /\ UNCHANGED <<pc, cap, err, pass0, finished>>
       ELSE LET blks == Rederive(MetaCalls(r.updated, TRUE), blocks, r.ins)
                nxt == NextPass(p)
            IN /\ meta' = MetaCalls(r.updated, TRUE)
               /\ blocks' = blks
               /\ finished' = Append(finished,
                                [name |-> p, rounds |-> round + 1, cap |-> cap,
                                 exitBy |-> IF r.updated THEN "cap" ELSE "break"])
               /\ pc' = nxt
               /\ round' = 0
               /\ cap' = CapOf(nxt, blks)
               /\ pass0' = IF nxt = "done" THEN pass0 ELSE r.ins
               /\ UNCHANGED err

\* The predecessor analyzer answers every query exactly.
NoStray == [start |-> -1, last |-> -1]

\* The state in which the caller invokes function e on the function ins.
Enter(e, ins) ==
    /\ instrs = ins
    /\ blocks = Finalize(ins)
    /\ pc = FirstPass(e)
    /\ round = 0
    /\ cap = CapOf(FirstPass(e), Finalize(ins))
    /\ err = "none"
    /\ pass0 = ins
    /\ prev = ins
    /\ merges = 0
    /\ meta = <<>>
    /\ finished = <<>>
    /\ entry = e
    /\ run = 1
    /\ run0 = ins

\* The caller invokes e on an input function of 1..MaxBlocks blocks, at
\* most one of them ending in a conditional branch, whose condition is one
\* of conds.
Call(e, conds) ==
    \E n \in 1..MaxBlocks : \E k \in 0..n : \E cfg \in Cfgs(n, k, conds) :
        IsInput(cfg, n) /\ Enter(e, Layout(cfg, 1)) /\ stray = NoStray

----------------------------------------------------------------------------
\* pass_clear_const_if

\* ConstIfLabel with the two arms exchanged.
ConstIfLabel_swapped(if_instr) ==
    IF ~IsIf(if_instr) THEN -1
    ELSE IF ~IsConst(if_instr.condition) THEN -1
    ELSE IF if_instr.condition.constant = 1 THEN if_instr.false
    ELSE IF if_instr.condition.constant = 0 THEN if_instr.true
    ELSE -1

\* ConstIfLabel without the `elif condition.constant == 0` arm.
ConstIfLabel_trueOnly(if_instr) ==
    IF ~IsIf(if_instr) THEN -1
    ELSE IF ~IsConst(if_instr.condition) THEN -1
    ELSE IF if_instr.condition.constant = 1 THEN if_instr.true
    ELSE -1

\* Lines 36-46: the label operand chosen for a conditional branch, or -1
\* when the block is skipped (`continue`).
ConstIfLabel(if_instr) ==
    IF ~IsIf(if_instr) THEN -1
    ELSE IF ~IsConst(if_instr.condition) THEN -1
    ELSE IF if_instr.condition.constant = 1 THEN if_instr.true
    ELSE IF if_instr.condition.constant = 0 THEN if_instr.false
    ELSE -1

\* The `for bb in mlil.basic_blocks` scan of one round, from block k on.
RECURSIVE ScanConstIf(_, _, _, _)
ScanConstIf(ins, blks, k, upd) ==
    IF k > Len(blks) THEN ScanResult(ins, upd, "none", 0)
    ELSE LET i == LastIdx(blks[k])
             label == ConstIfLabel(At(ins, i))
         IN IF label = -1 THEN ScanConstIf(ins, blks, k + 1, upd)
            ELSE ScanConstIf(ReplaceExpr(ins, i, Goto(label)), blks, k + 1, TRUE)

ConstIfRound ==
    Round("pass_clear_const_if", ScanConstIf(instrs, blocks, 1, FALSE))

InitConstIf == Call("pass_clear_const_if", Conds)

NextConstIf == ConstIfRound

SpecConstIf == InitConstIf /\ [][NextConstIf]_vars

----------------------------------------------------------------------------
\* pass_clear_goto

\* The recursion depth at which following jumps through ins cannot end
\* any more: a chain without a cycle passes each instruction at most once,
\* so a deeper recursion never returns and the interpreter ends it with a
\* RecursionError.
RecursionLimit(ins) == Len(ins) + 1

\* optimize_goto returning target_instr instead of final_target.
optimize_goto_immediate(ins, goto_instr, depth) == goto_instr.dest

\* Lines 74-87: the instr_index of the instruction optimize_goto returns
\* for the jump goto_instr, or -1 when the recursion never returns.
RECURSIVE optimize_goto(_, _, _)
optimize_goto(ins, goto_instr, depth) ==
    IF depth > RecursionLimit(ins) THEN -1
    ELSE LET target_instr == At(ins, goto_instr.dest)
         IN IF ~IsGoto(target_instr) THEN goto_instr.dest
            ELSE optimize_goto(ins, target_instr, depth + 1)

\* Lines 92-104: the scan of one round, from block k on.
RECURSIVE ScanGoto(_, _, _, _)
ScanGoto(ins, blks, k, upd) ==
    IF k > Len(blks) THEN ScanResult(ins, upd, "none", 0)
    ELSE LET i == LastIdx(blks[k])
             goto_instr == At(ins, i)
             final == optimize_goto(ins, goto_instr, 1)
         IN IF ~IsGoto(goto_instr) THEN ScanGoto(ins, blks, k + 1, upd)
            ELSE IF final = -1 THEN ScanResult(ins, upd, "RecursionError", 0)
            ELSE IF final = goto_instr.dest THEN ScanGoto(ins, blks, k + 1, upd)
            ELSE ScanGoto(ReplaceExpr(ins, i, Goto(final)), blks, k + 1, TRUE)

GotoRound == Round("pass_clear_goto", ScanGoto(instrs, blocks, 1, FALSE))

InitGoto == Call("pass_clear_goto", {CondVar})

NextGoto == GotoRound

SpecGoto == InitGoto /\ [][NextGoto]_vars

----------------------------------------------------------------------------
\* pass_clear_if

\* get_final_target without the recursion into the jump's target.
get_final_target_noFollow(ins, idx, depth) == idx

\* Lines 123-129: the instr_index of the instruction get_final_target
\* returns for the instruction at idx, or -1 when the recursion never
\* returns.
RECURSIVE get_final_target(_, _, _)
get_final_target(ins, idx, depth) ==
    IF depth > RecursionLimit(ins) THEN -1
    ELSE IF IsGoto(At(ins, idx))
    THEN get_final_target(ins, At(ins, idx).dest, depth + 1)
    ELSE idx

\* Lines 133-159: the scan of one round, from block k on.
RECURSIVE ScanIf(_, _, _, _)
ScanIf(ins, blks, k, upd) ==
    IF k > Len(blks) THEN ScanResult(ins, upd, "none", 0)
    ELSE LET i == LastIdx(blks[k])
             if_instr == At(ins, i)
             true_target == get_final_target(ins, if_instr.true, 1)
             false_target == get_final_target(ins, if_instr.false, 1)
         IN IF ~IsIf(if_instr) THEN ScanIf(ins, blks, k + 1, upd)
            ELSE IF true_target = -1 \/ false_target = -1
            THEN ScanResult(ins, upd, "RecursionError", 0)
            ELSE IF true_target # if_instr.true \/ false_target # if_instr.false
            THEN ScanIf(ReplaceExpr(ins, i,
                            If(if_instr.condition, true_target, false_target)),
                        blks, k + 1, TRUE)
            ELSE ScanIf(ins, blks, k + 1, upd)

IfRound == Round("pass_clear_if", ScanIf(instrs, blocks, 1, FALSE))

InitIf == Call("pass_clear_if", {CondVar})

NextIf == IfRound

SpecIf == InitIf /\ [][NextIf]_vars

----------------------------------------------------------------------------
\* pass_merge_block

\* CFGAnalyzer.MLIL_get_incoming_blocks(mlil, start): the blocks whose
\* terminator can transfer control to the block that starts at start; when
\* the analyzer is inconsistent about start, also the block ending at
\* stray.last.
IncomingBlocks(ins, blks, start) ==
    SelectSeq(blks, LAMBDA b :
        \/ start \in Targets(At(ins, LastIdx(b)))
        \/ stray.start = start /\ stray.last = LastIdx(b))

\* RewireIf that leaves a branch with no arm on the merged block as it is.
RewireIf_keep(pre_instr, first, label) ==
    IF pre_instr.true = first
    THEN If(pre_instr.condition, label, pre_instr.false)
    ELSE IF pre_instr.false = first
    THEN If(pre_instr.condition, pre_instr.true, label)
    ELSE pre_instr

\* Lines 196-229: the terminator that replaces the conditional-branch
\* predecessor pre_instr, or Ret when neither arm is the merged block's
\* first instruction (`raise Exception("Invalid if condition")`).
RewireIf(pre_instr, first, label) ==
    IF pre_instr.true = first
    THEN If(pre_instr.condition, label, pre_instr.false)
    ELSE IF pre_instr.false = first
    THEN If(pre_instr.condition, pre_instr.true, label)
    ELSE Ret

\* Lines 189-229: the predecessors pres[j..] are pointed at label one after
\* the other; old holds the instructions as the caller read them.
RECURSIVE Rewire(_, _, _, _, _, _)
Rewire(ins, old, pres, j, first, label) ==
    IF j > Len(pres) THEN [ins |-> ins, err |-> "none"]
    ELSE LET pre_instr == At(old, pres[j])
         IN IF IsGoto(pre_instr)
            THEN Rewire(ReplaceExpr(ins, pres[j], Goto(label)),
                        old, pres, j + 1, first, label)
            ELSE IF IsIf(pre_instr)
            THEN IF IsRet(RewireIf(pre_instr, first, label))
                 THEN [ins |-> ins, err |-> "Invalid if condition"]
                 ELSE Rewire(ReplaceExpr(ins, pres[j],
                                         RewireIf(pre_instr, first, label)),
                             old, pres, j + 1, first, label)
            ELSE Rewire(ins, old, pres, j + 1, first, label)

\* merge_block that marks the label at the copy's last instruction.
merge_block_tailLabel(ins, idxs, pres) ==
    IF ~\A j \in 1..Len(pres) : IsGoto(At(ins, pres[j])) \/ IsIf(At(ins, pres[j]))
    THEN [ok |-> FALSE, ins |-> ins, err |-> "none"]
    ELSE IF Len(idxs) = 0
    THEN [ok |-> FALSE, ins |-> ins, err |-> "none"]
    ELSE LET copied == ins \o [j \in 1..Len(idxs) |-> At(ins, idxs[j])]
             label == Len(copied) - 1
             r == Rewire(copied, ins, pres, 1, idxs[1], label)
         IN [ok |-> r.err = "none", ins |-> r.ins, err |-> r.err]

\* merge_block that marks the label behind the copy instead of before it.
merge_block_lateLabel(ins, idxs, pres) ==
    IF ~\A j \in 1..Len(pres) : IsGoto(At(ins, pres[j])) \/ IsIf(At(ins, pres[j]))
    THEN [ok |-> FALSE, ins |-> ins, err |-> "none"]
    ELSE IF Len(idxs) = 0
    THEN [ok |-> FALSE, ins |-> ins, err |-> "none"]
    ELSE LET copied == ins \o [j \in 1..Len(idxs) |-> At(ins, idxs[j])]
             label == Len(copied)
             r == Rewire(copied, ins, pres, 1, idxs[1], label)
         IN [ok |-> r.err = "none", ins |-> r.ins, err |-> r.err]

\* merge_block without the check of the predecessors' kinds.
merge_block_unchecked(ins, idxs, pres) ==
    IF Len(idxs) = 0
    THEN [ok |-> FALSE, ins |-> ins, err |-> "none"]
    ELSE LET label == Len(ins)
             copied == ins \o [j \in 1..Len(idxs) |-> At(ins, idxs[j])]
             r == Rewire(copied, ins, pres, 1, idxs[1], label)
         IN [ok |-> r.err = "none", ins |-> r.ins, err |-> r.err]

\* merge_block(mlil, instrs, pre_instrs): idxs are the indices of the
\* instructions to copy, pres those of the predecessors' terminators.
merge_block(ins, idxs, pres) ==
    IF ~\A j \in 1..Len(pres) : IsGoto(At(ins, pres[j])) \/ IsIf(At(ins, pres[j]))
    THEN [ok |-> FALSE, ins |-> ins, err |-> "none"]
    ELSE IF Len(idxs) = 0
    THEN [ok |-> FALSE, ins |-> ins, err |-> "none"]
    ELSE LET label == Len(ins)
             copied == ins \o [j \in 1..Len(idxs) |-> At(ins, idxs[j])]
             r == Rewire(copied, ins, pres, 1, idxs[1], label)
         IN [ok |-> r.err = "none", ins |-> r.ins, err |-> r.err]

\* The indices lo, lo + 1, ..., hi - 1 as a sequence.
Range(lo, hi) == [j \in 1..(hi - lo) |-> lo + j - 1]

\* Lines 248-255: whether block, ending in the jump last_instr, is merged
\* with the block it jumps to.
Mergeable(ins, blks, last_instr) ==
    LET next_block == blks[BlockAt(blks, last_instr.dest)]
        next_block_incoming == IncomingBlocks(ins, blks, next_block.start)
    IN /\ Len(next_block_incoming) = 1
       /\ \/ IsGoto(At(ins, LastIdx(next_block)))
          \/ IsRet(At(ins, LastIdx(next_block)))

\* MergeCall that takes the predecessors of next_block for those of block.
MergeCall_nextPreds(ins, blks, k) ==
    LET block == blks[k]
        next_block == blks[BlockAt(blks, At(ins, LastIdx(block)).dest)]
        pre_blocks == IncomingBlocks(ins, blks, next_block.start)
        pre_instrs == [j \in 1..Len(pre_blocks) |-> LastIdx(pre_blocks[j])]
        idxs == Range(block.start, block.end - 1)
                    \o Range(next_block.start, next_block.end)
    IN merge_block(ins, idxs, pre_instrs)

\* Lines 256-259: the merge_block call made for the k-th block.
MergeCall(ins, blks, k) ==
    LET block == blks[k]
        next_block == blks[BlockAt(blks, At(ins, LastIdx(block)).dest)]
        pre_blocks == IncomingBlocks(ins, blks, block.start)
        pre_instrs == [j \in 1..Len(pre_blocks) |-> LastIdx(pre_blocks[j])]
        idxs == Range(block.start, block.end - 1)
                    \o Range(next_block.start, next_block.end)
    IN merge_block(ins, idxs, pre_instrs)

\* ScanMerge that goes on to the blocks that follow after a successful
\* merge (skipping a jump out of the blocks it iterates over).
RECURSIVE ScanMerge_noBreak(_, _, _)
ScanMerge_noBreak(ins, blks, k) ==
    IF k > Len(blks) THEN ScanResult(ins, FALSE, "none", 0)
    ELSE LET last_instr == At(ins, LastIdx(blks[k]))
         IN IF ~IsGoto(last_instr) \/ last_instr.dest >= blks[Len(blks)].end
            THEN ScanMerge_noBreak(ins, blks, k + 1)
            ELSE IF ~Mergeable(ins, blks, last_instr)
            THEN ScanMerge_noBreak(ins, blks, k + 1)
            ELSE LET m == MergeCall(ins, blks, k)
                     rest == ScanMerge_noBreak(m.ins, blks, k + 1)
                 IN IF m.err # "none" THEN ScanResult(m.ins, FALSE, m.err, 0)
                    ELSE IF m.ok
                    THEN ScanResult(rest.ins, TRUE, rest.err, rest.merges + 1)
                    ELSE ScanMerge_noBreak(ins, blks, k + 1)

\* Lines 240-261: the scan of one round, from block k on; the first
\* successful merge ends it.
RECURSIVE ScanMerge(_, _, _)
ScanMerge(ins, blks, k) ==
    IF k > Len(blks) THEN ScanResult(ins, FALSE, "none", 0)
    ELSE LET last_instr == At(ins, LastIdx(blks[k]))
         IN IF ~IsGoto(last_instr) THEN ScanMerge(ins, blks, k + 1)
            ELSE IF ~Mergeable(ins, blks, last_instr)
            THEN ScanMerge(ins, blks, k + 1)
            ELSE LET m == MergeCall(ins, blks, k)
                 IN IF m.err # "none" THEN ScanResult(m.ins, FALSE, m.err, 0)
                    ELSE IF m.ok THEN ScanResult(m.ins, TRUE, "none", 1)
                    ELSE ScanMerge(ins, blks, k + 1)

MergeRound == Round("pass_merge_block", ScanMerge(instrs, blocks, 1))

InitMerge == Call("pass_merge_block", {CondVar})

NextMerge == MergeRound

SpecMerge == InitMerge /\ [][NextMerge]_vars

\* pass_merge_block is invoked on an input function while the predecessor
\* analyzer is inconsistent about one block that ends in a jump: it also
\* reports the block that ends in the conditional branch, which does not
\* lead there.
InitMergeStray ==
    \E n \in 1..MaxBlocks : \E k \in 0..n : \E cfg \in Cfgs(n, k, {CondVar}) :
        /\ IsInput(cfg, n)
        /\ Enter("pass_merge_block", Layout(cfg, 1))
        /\ k # 0
        /\ \E b \in 1..n :
            /\ cfg[b].op = "goto"
            /\ b \notin {cfg[k].t, cfg[k].f}
            /\ stray = [start |-> StartOf(cfg, b),
                        last |-> StartOf(cfg, k) + cfg[k].body]

NextMergeStray == MergeRound

SpecMergeStray == InitMergeStray /\ [][NextMergeStray]_vars

\* Functions that start with a dispatcher, a block made of one indirect
\* jump through a table of one or two targets, followed by n blocks that
\* end in a jump or a return.
JtCfgs(n) ==
    {[b \in 1..(n + 1) |-> IF b = 1 THEN jt ELSE js[b]] :
        js \in [2..(n + 1) -> JumpShapes(n + 1)],
        jt \in {[body |-> 0, op |-> "jump_to", t |-> p[1], f |-> p[2],
                  c |-> NoCond] :
                 p \in {q \in (2..(n + 1)) \X (2..(n + 1)) : q[1] <= q[2]}}}

\* pass_merge_block is invoked on a function with a dispatcher.
InitMergeJt ==
    \E n \in 1..MaxBlocks : \E cfg \in JtCfgs(n) :
        /\ IsInput(cfg, n + 1)
        /\ Enter("pass_merge_block", Layout(cfg, 1))
        /\ stray = NoStray

NextMergeJt == MergeRound

SpecMergeJt == InitMergeJt /\ [][NextMergeJt]_vars

----------------------------------------------------------------------------
\* pass_clear

InitClear == Call("pass_clear", Conds)

NextClear == ConstIfRound \/ GotoRound \/ IfRound \/ MergeRound

SpecClear == InitClear /\ [][NextClear]_vars

\* The caller runs the same function once more on the simplified function.
Rerun ==
    /\ pc = "done"
    /\ run < 2
    /\ run' = run + 1
    /\ run0' = instrs
    /\ pc' = FirstPass(entry)
    /\ round' = 0
    /\ cap' = CapOf(FirstPass(entry), blocks)
    /\ pass0' = instrs
    /\ prev' = instrs
    /\ merges' = 0
    /\ meta' = <<>>
    /\ finished' = <<>>
    /\ UNCHANGED <<instrs, blocks, err, stray, entry>>

NextTwice == NextClear \/ Rerun

SpecTwice == InitClear /\ [][NextTwice]_vars

----------------------------------------------------------------------------
\* Notions the properties are stated with

\* The indices of ins.
Indices(ins) == 0..(Len(ins) - 1)

\* The instruction indices reached from the indices S by following
\* unconditional jumps.
RECURSIVE ChainFrom(_, _)
ChainFrom(ins, S) ==
    LET T == S \cup {At(ins, i).dest : i \in {j \in S : IsGoto(At(ins, j))}}
    IN IF T = S THEN S ELSE ChainFrom(ins, T)

\* The sink of the jump chain entered at d: the non-jump instructions it
\* reaches (one, or none when the chain is a cycle).
Sinks(ins, d) == {s \in ChainFrom(ins, {d}) : ~IsGoto(At(ins, s))}

\* The indices of the terminators of the blocks of ins.
TerminatorIdxs(ins) ==
    {l - 1 : l \in Leaders(ins) \ {0}} \cup {Len(ins) - 1}

----------------------------------------------------------------------------
\* C1: when pass_clear_const_if has returned, every block terminator that
\* was a conditional branch on a literal constant is a jump to the true arm
\* if the constant was 1 and to the false arm if it was 0; a branch on any
\* other constant, and every other instruction, is as it was.
C1_ConstIfFolded ==
    pc = "done" =>
        /\ Len(instrs) = Len(pass0)
        /\ \A i \in Indices(pass0) :
            LET o == At(pass0, i)
            IN IF i \in TerminatorIdxs(pass0) /\ IsIf(o) /\ IsConst(o.condition)
                    /\ o.condition.constant = 1
               THEN At(instrs, i) = Goto(o.true)
               ELSE IF i \in TerminatorIdxs(pass0) /\ IsIf(o)
                        /\ IsConst(o.condition) /\ o.condition.constant = 0
               THEN At(instrs, i) = Goto(o.false)
               ELSE At(instrs, i) = o

\* A branch on the literal 1 with two different arms has been folded.
C1_Witness ==
    /\ pc = "done"
    /\ entry = "pass_clear_const_if"
    /\ \E i \in Indices(pass0) :
        /\ IsIf(At(pass0, i))
        /\ At(pass0, i).condition = CondConst(1)
        /\ At(pass0, i).true # At(pass0, i).false
        /\ IsGoto(At(instrs, i))

\* C2: when pass_clear_const_if has returned, no block terminator is a
\* conditional branch whose condition is the literal 0 or 1.
C2_NoConstIfLeft ==
    pc = "done" =>
        \A i \in TerminatorIdxs(instrs) :
            ~(/\ IsIf(At(instrs, i))
              /\ IsConst(At(instrs, i).condition)
              /\ At(instrs, i).condition.constant \in {0, 1})

\* The pass has returned on a function that had a branch on the literal 0.
C2_Witness ==
    /\ pc = "done"
    /\ entry = "pass_clear_const_if"
    /\ \E i \in Indices(pass0) :
        IsIf(At(pass0, i)) /\ At(pass0, i).condition = CondConst(0)

----------------------------------------------------------------------------
\* C3: when pass_clear_goto has returned, every block terminator that was
\* an unconditional jump is a jump to the sink of the jump chain its
\* target began in the input function; in particular a jump whose target
\* was no jump is as it was.
C3_JumpsReachSink ==
    pc = "done" =>
        \A i \in TerminatorIdxs(pass0) :
            IsGoto(At(pass0, i)) =>
                /\ IsGoto(At(instrs, i))
                /\ At(instrs, i).dest \in Sinks(pass0, At(pass0, i).dest)
                /\ ~IsGoto(At(pass0, At(pass0, i).dest))
                    => At(instrs, i) = At(pass0, i)

\* The chain B1 -> B2 -> B3 with terminators jump, jump, return: B1 now
\* jumps to B3.
C3_Witness ==
    /\ pc = "done"
    /\ entry = "pass_clear_goto"
    /\ pass0 = <<Goto(1), Goto(2), Ret>>
    /\ instrs = <<Goto(2), Goto(2), Ret>>

\* C4: when pass_clear_goto has returned, no unconditional jump that ends
\* a block has an unconditional jump as its target.
C4_NoJumpToJump ==
    pc = "done" =>
        \A i \in TerminatorIdxs(instrs) :
            IsGoto(At(instrs, i)) => ~IsGoto(At(instrs, At(instrs, i).dest))

\* The pass has returned on a function in which a jump targeted a jump.
C4_Witness ==
    /\ pc = "done"
    /\ entry = "pass_clear_goto"
    /\ \E i \in Indices(pass0) :
        /\ IsGoto(At(pass0, i))
        /\ IsGoto(At(pass0, At(pass0, i).dest))
        /\ At(instrs, i) # At(pass0, i)

\* C5: a jump terminator whose chain of jumps cycles back on itself is
\* left as it is and no exception escapes the chain resolution.
C5_CycleLeftUnchanged ==
    \A i \in TerminatorIdxs(pass0) :
        (IsGoto(At(pass0, i)) /\ Sinks(pass0, At(pass0, i).dest) = {}) =>
            /\ err = "none"
            /\ At(instrs, i) = At(pass0, i)

\* C6: when pass_clear_if has returned, every block terminator that was a
\* conditional branch is a conditional branch on the same condition, each
\* arm of which targets the sink of the jump chain that arm entered in the
\* input function, and that target is no unconditional jump.
C6_ArmsReachSink ==
    pc = "done" =>
        \A i \in TerminatorIdxs(pass0) :
            IsIf(At(pass0, i)) =>
                /\ IsIf(At(instrs, i))
                /\ At(instrs, i).condition = At(pass0, i).condition
                /\ At(instrs, i).true \in Sinks(pass0, At(pass0, i).true)
                /\ At(instrs, i).false \in Sinks(pass0, At(pass0, i).false)
                /\ ~IsGoto(At(instrs, At(instrs, i).true))
                /\ ~IsGoto(At(instrs, At(instrs, i).false))

\* branch(cond, true = B2, false = B3) with B2 = jump(B3) and B3 = return
\* has become branch(cond, true = B3, false = B3).
C6_Witness ==
    /\ pc = "done"
    /\ entry = "pass_clear_if"
    /\ pass0 = <<If(CondVar, 1, 2), Goto(2), Ret>>
    /\ instrs = <<If(CondVar, 2, 2), Goto(2), Ret>>

----------------------------------------------------------------------------
\* C7: every pass terminates within its iteration cap: no scan round is
\* cut short by an exception, the cap of a pass is the number of basic
\* blocks at its start (twice that for pass_merge_block), and a pass never
\* runs more scan rounds than its cap.
C7_TerminatesWithinCaps ==
    /\ pc # "raised"
    /\ pc # "done" =>
        /\ cap = (IF pc = "pass_merge_block" THEN 2 ELSE 1) * Len(Finalize(pass0))
        /\ round < cap
    /\ \A j \in 1..Len(finished) : finished[j].rounds <= finished[j].cap

\* C8: a second run of pass_clear on the function the first run produced
\* replaces no terminator and appends no instruction.
C8_SecondRunChangesNothing == run = 2 => instrs = run0

----------------------------------------------------------------------------
\* The merge a scan of pass_merge_block performs

\* Whether the k-th block ends in a jump to a block it is merged with.
IsCandidate(ins, blks, k) ==
    /\ IsGoto(At(ins, LastIdx(blks[k])))
    /\ Mergeable(ins, blks, At(ins, LastIdx(blks[k])))

\* The first block, in block order, that is a candidate.
FirstCandidate(ins, blks) ==
    LET S == {k \in 1..Len(blks) : IsCandidate(ins, blks, k)}
    IN CHOOSE k \in S : \A j \in S : k <= j

\* The block B merged by the last scan round, the block C it jumped to, the
\* terminators of B's predecessors and the entry of the merged copy, all in
\* terms of the function before that round.
MergedB ==
    LET blks == Finalize(prev)
    IN blks[FirstCandidate(prev, blks)]

MergedC ==
    LET blks == Finalize(prev)
        B == blks[FirstCandidate(prev, blks)]
    IN blks[BlockAt(blks, At(prev, LastIdx(B)).dest)]

MergedPreds ==
    LET s == MergedB.start
    IN {i \in TerminatorIdxs(prev) : s \in Targets(At(prev, i))}

MergedEntry == Len(prev)

\* The terminators of ins that can transfer control to index t.
PredsOf(ins, t) == {i \in TerminatorIdxs(ins) : t \in Targets(At(ins, i))}

\* C9: after a successful merge of B and another block C every predecessor
\* that targeted B targets the merged entry, no predecessor terminator
\* still references B's old entry, and C no longer has any predecessor.
C9_MergeRewiresPreds ==
    (merges = 1 /\ err = "none" /\ MergedB # MergedC) =>
        /\ \A p \in MergedPreds :
            /\ MergedEntry \in Targets(At(instrs, p))
            /\ MergedB.start \notin Targets(At(instrs, p))
        /\ PredsOf(instrs, MergedC.start) = {}

\* The instructions of block b before its terminator, and all of them.
BodyOf(ins, b) == SubSeq(ins, b.start + 1, b.end - 1)

InstrsOf(ins, b) == SubSeq(ins, b.start + 1, b.end)

\* Whether the instructions of ins from index e on begin with seq.
StartsWith(ins, e, seq) ==
    e + Len(seq) <= Len(ins) /\ SubSeq(ins, e + 1, e + Len(seq)) = seq

\* Where control that entered the input block starting at s now enters:
\* the function's entry if that was the block, and the targets that stand
\* where its predecessors' terminators named s.
EntriesInto(s) ==
    (IF s = 0 THEN {0} ELSE {})
    \cup {At(instrs, p).dest : p \in {i \in PredsOf(pass0, s) : IsGoto(At(pass0, i))}}
    \cup {At(instrs, p).true :
            p \in {i \in PredsOf(pass0, s) :
                     IsIf(At(pass0, i)) /\ At(pass0, i).true = s}}
    \cup {At(instrs, p).false :
            p \in {i \in PredsOf(pass0, s) :
                     IsIf(At(pass0, i)) /\ At(pass0, i).false = s}}

\* C10: when pass_merge_block has returned, for every block B of the input
\* that jumped to another block C with exactly one incoming edge and a jump
\* or return at its end, control that entered B runs B's body followed by
\* C's instructions as one block, and C has no predecessor left; B may be
\* the function's entry block.
C10_StraightLineMerged ==
    (pc = "done" /\ entry = "pass_merge_block") =>
        \A k \in 1..Len(Finalize(pass0)) :
            IsCandidate(pass0, Finalize(pass0), k) =>
                LET B == Finalize(pass0)[k]
                    C == Finalize(pass0)[BlockAt(Finalize(pass0),
                                                 At(pass0, LastIdx(B)).dest)]
                IN B # C =>
                    /\ \A e \in EntriesInto(B.start) :
                        StartsWith(instrs, e,
                                   BodyOf(pass0, B) \o BodyOf(pass0, C))
                    /\ PredsOf(instrs, C.start) = {}

\* The terminators the analyzer reports as predecessors of index t.
ReportedPreds(ins, t) ==
    PredsOf(ins, t)
    \cup {i \in TerminatorIdxs(ins) : stray.start = t /\ stray.last = i}

\* Whether some reported predecessor of the k-th block ends in neither a
\* jump nor a conditional branch.
HasOddPred(ins, blks, k) ==
    \E i \in ReportedPreds(ins, blks[k].start) :
        ~IsGoto(At(ins, i)) /\ ~IsIf(At(ins, i))

\* The candidates of ins with such a predecessor, and those without.
CandidateKinds(ins) ==
    LET blks == Finalize(ins)
        cands == {k \in 1..Len(blks) : IsCandidate(ins, blks, k)}
        odd == {k \in cands : HasOddPred(ins, blks, k)}
    IN [odd |-> odd, good |-> cands \ odd]

OddCandidates(ins) == CandidateKinds(ins).odd

GoodCandidates(ins) == CandidateKinds(ins).good

\* The least element of the non-empty set S of numbers.
Least(S) == CHOOSE k \in S : \A j \in S : k <= j

\* The copy a merge of the k-th block of ins appends: the block's body and
\* the instructions of the block it jumps to.
CopyOf(ins, k) ==
    LET blks == Finalize(ins)
        B == blks[k]
        C == blks[BlockAt(blks, At(ins, LastIdx(B)).dest)]
    IN BodyOf(ins, B) \o InstrsOf(ins, C)

\* C11: a scan round of pass_merge_block never merges a candidate that has
\* a predecessor ending in neither a jump nor a branch: nothing is appended
\* for it and no terminator of its predecessors is replaced.  When every
\* candidate is such a block the round changes nothing and the loop is left
\* through the break; otherwise the scan goes on and merges the first
\* candidate without such a predecessor.
C11_OddPredSkipped ==
    ((round > 0 \/ finished # <<>>) /\ err = "none") =>
        LET blks == Finalize(prev)
            kinds == CandidateKinds(prev)
            good == kinds.good
        IN /\ \A k \in kinds.odd :
                 \A i \in PredsOf(prev, blks[k].start) :
                     At(instrs, i) = At(prev, i)
           /\ IF good = {}
              THEN /\ instrs = prev
                   /\ merges = 0
                   /\ pc = "done"
                   /\ finished[Len(finished)].exitBy = "break"
              ELSE /\ merges = 1
                   /\ instrs = SubSeq(instrs, 1, Len(prev))
                               \o CopyOf(prev, Least(good))
                   /\ LET preds == PredsOf(prev, blks[Least(good)].start)
                      IN \A i \in Indices(prev) :
                            At(instrs, i) # At(prev, i) => i \in preds

\* A round skipped a candidate reached through the dispatcher and merged a
\* block that comes after it.
C11_Witness ==
    /\ round > 0
    /\ err = "none"
    /\ merges = 1
    /\ Len(instrs) > Len(prev)
    /\ OddCandidates(prev) # {}
    /\ GoodCandidates(prev) # {}
    /\ Least(OddCandidates(prev)) < Least(GoodCandidates(prev))

\* The conditional-branch terminators reported as predecessors of the first
\* block of ins a scan calls merge_block for with success or an exception,
\* none of whose arms targets that block.
ArmlessPreds(ins) ==
    LET s == Finalize(ins)[Least(GoodCandidates(ins))].start
    IN {i \in ReportedPreds(ins, s) :
            IsIf(At(ins, i)) /\ s \notin Targets(At(ins, i))}

\* C12: when the block a scan round of pass_merge_block merges has a
\* reported predecessor that is a conditional branch neither of whose arms
\* targets the block, the round ends in the exception "Invalid if
\* condition": the predecessor is not skipped, the pass does not return
\* and nothing runs after the exception.
C12_ArmlessPredRaises ==
    /\ err # "none" => pc = "raised" /\ finished = <<>>
    /\ ((round > 0 \/ finished # <<>>) /\ GoodCandidates(prev) # {}) =>
          LET armless == ArmlessPreds(prev)
          IN armless # {} =>
                /\ pc = "raised"
                /\ err = "Invalid if condition"
                /\ \A i \in armless : At(instrs, i) = At(prev, i)

\* A block with a body was to be merged, the analyzer reported a branch
\* that does not lead to it, and the exception left the pass.
C12_Witness ==
    /\ pc = "raised"
    /\ err = "Invalid if condition"
    /\ GoodCandidates(prev) # {}
    /\ ArmlessPreds(prev) # {}
    /\ Len(BodyOf(prev, Finalize(prev)[Least(GoodCandidates(prev))])) > 0

\* Fold constants, compress jump chains, redirect branch targets, merge
\* straight-line blocks.
PassOrder ==
    <<"pass_clear_const_if", "pass_clear_goto", "pass_clear_if",
      "pass_merge_block">>

\* C13: in pass_clear the passes that have returned are, in order, the
\* first passes of the order fold, compress, redirect, merge, each once;
\* the pass that is scanning is the one that follows them, so it started
\* only after they had left their loops; pass_clear returns after all four.
C13_PassOrder ==
    entry = "pass_clear" =>
        /\ Len(finished) <= 4
        /\ \A j \in 1..Len(finished) : finished[j].name = PassOrder[j]
        /\ pc \notin {"done", "raised"} =>
              Len(finished) < 4 /\ pc = PassOrder[Len(finished) + 1]
        /\ pc = "done" => Len(finished) = 4

\* pass_clear has returned after the first two passes and the last each
\* changed the function.
C13_Witness ==
    /\ entry = "pass_clear"
    /\ pc = "done"
    /\ Len(finished) = 4
    /\ \A j \in {1, 2, 4} : finished[j].rounds > 1
    /\ finished[4].name = "pass_merge_block"

\* C14: in every pass, a scan round that changed the function is followed
\* at once by finalize and then generate_ssa_form, before the next round
\* and before the pass returns; a pass returns right after a finalize and
\* a generate_ssa_form; and whenever a scan may start, the basic blocks it
\* reads are those of the instructions as they are.
C14_MetadataRederived ==
    /\ pc \notin {"done", "raised"} => blocks = Finalize(instrs)
    /\ (instrs # prev /\ pc # "raised") =>
          /\ Len(meta) >= 2
          /\ SubSeq(meta, 1, 2) = <<"finalize", "generate_ssa_form">>
    /\ (round = 0 /\ finished # <<>>) =>
          /\ Len(meta) >= 2
          /\ SubSeq(meta, Len(meta) - 1, Len(meta))
                = <<"finalize", "generate_ssa_form">>
          /\ blocks = Finalize(instrs)

\* A round of the block merger changed the function and the loop goes on.
C14_Witness ==
    /\ pc = "pass_merge_block"
    /\ round > 0
    /\ instrs # prev
    /\ meta = <<"finalize", "generate_ssa_form">>
    /\ blocks # Finalize(prev)

\* Whether ins is well formed: every jump and branch names an existing
\* instruction, and every block is non-empty and ends in a jump, a branch
\* or a return.
WellFormed(ins) ==
    /\ \A i \in Indices(ins) : Targets(At(ins, i)) \subseteq Indices(ins)
    /\ LET blks == Finalize(ins)
       IN \A k \in 1..Len(blks) :
            /\ blks[k].start < blks[k].end
            /\ IsTerminator(At(ins, LastIdx(blks[k])))

\* C15: the input being well formed, the function is well formed whenever
\* one of the four passes has completed (and at every scan in between).
C15_WellFormedKept ==
    (pc # "raised" /\ WellFormed(run0)) => WellFormed(instrs)

\* pass_clear has returned, its merger having appended a copy whose entry
\* a branch now names.
C15_Witness ==
    /\ entry = "pass_clear"
    /\ pc = "done"
    /\ WellFormed(run0)
    /\ Len(instrs) > Len(run0)
    /\ \E i \in Indices(instrs) :
        IsIf(At(instrs, i)) /\ \E t \in Targets(At(instrs, i)) : t >= Len(run0)

\* C16: a scan round of pass_merge_block applies at most one merge: the
\* first successful merge_block call ends the scan, so the round appends
\* the copy for the first candidate only, and finalize and
\* generate_ssa_form run before any other block is looked at.
C16_OneMergePerRound ==
    ((round > 0 \/ finished # <<>>) /\ err = "none") =>
        /\ merges <= 1
        /\ merges = 0 => instrs = prev
        /\ merges = 1 =>
            LET copy == CopyOf(prev, FirstCandidate(prev, Finalize(prev)))
            IN /\ Len(instrs) = Len(prev) + Len(copy)
               /\ SubSeq(instrs, Len(prev) + 1, Len(instrs)) = copy
               /\ SubSeq(meta, 1, 2) = <<"finalize", "generate_ssa_form">>

\* A round merged the first candidate while a later block of the same scan
\* was a candidate too.
C16_Witness ==
    /\ round > 0
    /\ err = "none"
    /\ merges = 1
    /\ LET blks == Finalize(prev)
       IN \E k \in 1..Len(blks) :
            k > FirstCandidate(prev, blks) /\ IsCandidate(prev, blks, k)

\* The blocks of ins that start where the block merged by the last round
\* started.
MergedAgain(ins) ==
    {k \in 1..Len(Finalize(ins)) : Finalize(ins)[k].start = MergedB.start}

\* Whether no block of ins ends in a jump to its own start.
NoSelfJump(ins) ==
    \A k \in 1..Len(Finalize(ins)) :
        LET t == At(ins, LastIdx(Finalize(ins)[k]))
        IN IsGoto(t) => t.dest # Finalize(ins)[k].start

\* C17: pass_merge_block reaches a fixed point: its loop is left through a
\* round that merges nothing, before the cap of twice the block count is
\* used up, and a block merged with another block by one round is not a
\* candidate for the next (stated for functions none of whose blocks jumps
\* to itself).
C17_MergerFixedPoint ==
    /\ (entry = "pass_merge_block" /\ pc = "done" /\ NoSelfJump(run0)) =>
          /\ finished[1].exitBy = "break"
          /\ finished[1].rounds <= finished[1].cap
    /\ (entry = "pass_merge_block" /\ merges = 1 /\ err = "none"
            /\ NoSelfJump(run0)) =>
          \A k \in MergedAgain(instrs) : ~IsCandidate(instrs, Finalize(instrs), k)

\* The indices of the instructions of block b.
IdxsOf(b) == b.start..LastIdx(b)

\* C18: a successful merge of B with C only appends the copy at the end of
\* the function and replaces the terminators of B's predecessors, each by
\* a terminator of the same kind and condition: every other instruction
\* is where and as it was, so the instructions of B, B's jump to C
\* included, and of C are unchanged unless they are a predecessor's
\* terminator.
C18_MergeFrame ==
    (merges = 1 /\ err = "none") =>
        LET B == MergedB
            C == MergedC
            preds == MergedPreds
        IN /\ Len(instrs) = Len(prev) + Len(BodyOf(prev, B))
                                      + Len(InstrsOf(prev, C))
           /\ SubSeq(instrs, Len(prev) + 1, Len(instrs))
                = BodyOf(prev, B) \o InstrsOf(prev, C)
           /\ \A i \in Indices(prev) \ preds : At(instrs, i) = At(prev, i)
           /\ \A i \in preds :
               /\ At(instrs, i).op = At(prev, i).op
               /\ At(instrs, i).condition = At(prev, i).condition
           /\ \A i \in (IdxsOf(B) \cup IdxsOf(C)) \ preds :
               At(instrs, i) = At(prev, i)
           /\ LastIdx(B) \notin preds =>
               At(instrs, LastIdx(B)) = Goto(C.start)

\* A block B with a body was merged with another block C, B having a
\* conditional branch among its predecessors and neither B nor C being
\* one of them.
C18_Witness ==
    /\ merges = 1
    /\ err = "none"
    /\ MergedB # MergedC
    /\ Len(BodyOf(prev, MergedB)) > 0
    /\ \E i \in MergedPreds : IsIf(At(prev, i)) /\ At(instrs, i) # At(prev, i)
    /\ MergedPreds \cap (IdxsOf(MergedB) \cup IdxsOf(MergedC)) = {}

\* The starts of the blocks of ins that control can reach from the starts S.
RECURSIVE ReachableStarts(_, _, _)
ReachableStarts(ins, blks, S) ==
    LET T == S \cup UNION {Targets(At(ins, LastIdx(blks[k]))) :
                             k \in {j \in 1..Len(blks) : blks[j].start \in S}}
    IN IF T = S THEN S ELSE ReachableStarts(ins, blks, T)

\* The terminators of the blocks of ins reachable from the entry.
LiveTerminators(ins) ==
    LET blks == Finalize(ins)
        live == ReachableStarts(ins, blks, {0})
    IN {LastIdx(blks[k]) : k \in {j \in 1..Len(blks) : blks[j].start \in live}}

\* C19: when pass_clear has returned (the input then has no cycle of
\* jumps that a pass followed), among the blocks reachable from the entry
\* no conditional branch is on the literal 0 or 1, no jump targets a jump
\* and no arm of a conditional branch targets a jump.
C19_MergerKeepsEarlierPasses ==
    (entry = "pass_clear" /\ pc = "done") =>
        \A i \in LiveTerminators(instrs) :
            /\ IsIf(At(instrs, i)) =>
                  At(instrs, i).condition \notin {CondConst(0), CondConst(1)}
            /\ \A t \in Targets(At(instrs, i)) : ~IsGoto(At(instrs, t))

\* pass_clear has returned after its jump compression and its merger
\* changed the function, and a reachable terminator names a merged copy.
C19_Witness ==
    /\ entry = "pass_clear"
    /\ pc = "done"
    /\ finished[2].rounds > 1
    /\ finished[4].rounds > 1
    /\ \E i \in LiveTerminators(instrs) :
        \E t \in Targets(At(instrs, i)) : t >= Len(run0)

\* C20: the predecessor analyzer being exact, pass_merge_block never ends
\* in the exception "Invalid if condition", also when the merged block is
\* a lone jump that a conditional branch leads to.
C20_NeverInvalidIf ==
    (entry = "pass_merge_block" /\ stray = NoStray) =>
        err # "Invalid if condition"

====
